---- MODULE Spec2Model ----
(***************************************************************************)
(* A model of StaticController (src/staticcontroller.py): one request      *)
(* through _default, step by step, next to a concurrent actor that changes *)
(* the served file on disk.                                                *)
(*                                                                         *)
(* Python strings are sequences of one-character strings, so that          *)
(* formatting, splitting and parsing are computed and not assumed.         *)
(* Python floats (getmtime(), time()) are fixed-point numbers with one     *)
(* decimal digit: the integer x stands for the float x / 10.               *)
(* The platform is POSIX: os.path is posixpath.                            *)
(***************************************************************************)
EXTENDS Integers, Sequences, FiniteSets, TLC

(***************************************************************************)
(* Bounds of the model.                                                    *)
(***************************************************************************)
\* Path segments of one request: 0..MaxSegs.
MaxSegs == 2
\* Timestamps are 0 and TimeStride, 2*TimeStride, ..., MaxTimes*TimeStride.
MaxTimes == 1
\* 31 days and one second less: successive timestamps differ in every field
\* of the date but the year.
TimeStride == 2678399
\* File sizes are 0..MaxSize.
MaxSize == 1

(***************************************************************************)
(* Strings.                                                                *)
(***************************************************************************)
DigitChars == <<"0", "1", "2", "3", "4", "5", "6", "7", "8", "9">>

IsDigit(c) == \E i \in 1..10 : DigitChars[i] = c

DigitValue(c) == (CHOOSE i \in 1..10 : DigitChars[i] = c) - 1

\* str(n) and '%d' % n for an int n >= 0
RECURSIVE StrInt(_)
StrInt(n) ==
    IF n < 10 THEN <<DigitChars[n + 1]>>
    ELSE StrInt(n \div 10) \o <<DigitChars[(n % 10) + 1]>>

\* '%02d' % n for an int n >= 0
Pad2(n) == IF n < 10 THEN <<"0">> \o StrInt(n) ELSE StrInt(n)

\* str(x) and '%s' % x for a float x >= 0 (one decimal digit): '100.5', '0.0'
StrFloat(x) == StrInt(x \div 10) \o <<".">> \o StrInt(x % 10)

\* int(s): the value, or -1 for the ValueError of a string that is no number
RECURSIVE IntOf(_)
IntOf(s) ==
    IF s = <<>> \/ \E i \in 1..Len(s) : ~IsDigit(s[i]) THEN -1
    ELSE IF Len(s) = 1 THEN DigitValue(s[1])
    ELSE 10 * IntOf(SubSeq(s, 1, Len(s) - 1)) + DigitValue(s[Len(s)])

\* s.split(sep) for a one-character sep: always at least one piece
RECURSIVE Split(_, _)
Split(s, sep) ==
    IF \A i \in 1..Len(s) : s[i] # sep THEN <<s>>
    ELSE LET i == CHOOSE k \in 1..Len(s) :
                      s[k] = sep /\ \A j \in 1..(k - 1) : s[j] # sep
         IN <<SubSeq(s, 1, i - 1)>> \o Split(SubSeq(s, i + 1, Len(s)), sep)

\* s.split(): the pieces between runs of blanks, none of them empty
SplitBlank(s) == SelectSeq(Split(s, " "), LAMBDA p : p # <<>>)

\* sep.join(parts)
RECURSIVE JoinWith(_, _)
JoinWith(parts, sep) ==
    IF parts = <<>> THEN <<>>
    ELSE IF Len(parts) = 1 THEN parts[1]
    ELSE parts[1] \o sep \o JoinWith(Tail(parts), sep)

\* s.startswith(p)
StartsWith(s, p) == Len(s) >= Len(p) /\ SubSeq(s, 1, Len(p)) = p

\* s.endswith(p)
EndsWith(s, p) == Len(s) >= Len(p) /\ SubSeq(s, Len(s) - Len(p) + 1, Len(s)) = p

(***************************************************************************)
(* os.path (posixpath).                                                    *)
(***************************************************************************)
\* join(a, *p): a segment that starts with a slash replaces what came before
RECURSIVE join(_, _)
join(a, p) ==
    IF p = <<>> THEN a
    ELSE LET b == p[1]
             path == IF StartsWith(b, <<"/">>) THEN b
                     ELSE IF a = <<>> \/ EndsWith(a, <<"/">>) THEN a \o b
                     ELSE a \o <<"/">> \o b
         IN join(path, Tail(p))

\* the loop of normpath over the components: '' and '.' are dropped, '..'
\* removes the component before it, and stays when there is none to remove
\* on a relative path
RECURSIVE NormComps(_, _, _)
NormComps(comps, new_comps, initial_slashes) ==
    IF comps = <<>> THEN new_comps
    ELSE LET comp == comps[1]
             n == Len(new_comps)
             next ==
                 IF comp = <<>> \/ comp = <<".">> THEN new_comps
                 ELSE IF comp # <<".", ".">>
                         \/ (initial_slashes = 0 /\ n = 0)
                         \/ (n > 0 /\ new_comps[n] = <<".", ".">>)
                      THEN Append(new_comps, comp)
                 ELSE IF n > 0 THEN SubSeq(new_comps, 1, n - 1)
                 ELSE new_comps
         IN NormComps(Tail(comps), next, initial_slashes)

normpath(path) ==
    IF path = <<>> THEN <<".">>
    ELSE LET initial_slashes ==
                 IF ~StartsWith(path, <<"/">>) THEN 0
                 ELSE IF StartsWith(path, <<"/", "/">>)
                         /\ ~StartsWith(path, <<"/", "/", "/">>) THEN 2
                 ELSE 1
             body == JoinWith(NormComps(Split(path, "/"), <<>>, initial_slashes),
                              <<"/">>)
             res == (IF initial_slashes = 2 THEN <<"/", "/">>
                     ELSE IF initial_slashes = 1 THEN <<"/">>
                     ELSE <<>>) \o body
         IN IF res = <<>> THEN <<".">> ELSE res

\* normcase of posixpath returns its argument
normcase(s) == s

_adapt_path(path) == normcase(normpath(path))

(***************************************************************************)
(* None, and the truth value of a header value: None and '' are false.     *)
(***************************************************************************)
None == <<"<None>">>

Truthy(v) == v # None /\ v # <<>>

(***************************************************************************)
(* time.gmtime and calendar.timegm.                                        *)
(***************************************************************************)
IsLeap(y) == (y % 4 = 0 /\ y % 100 # 0) \/ y % 400 = 0

DaysInYear(y) == IF IsLeap(y) THEN 366 ELSE 365

DaysInMonth(y, m) ==
    IF m = 2 THEN (IF IsLeap(y) THEN 29 ELSE 28)
    ELSE IF m \in {4, 6, 9, 11} THEN 30
    ELSE 31

\* days from 1970-01-01 to the first day of year y
RECURSIVE DaysToYear(_)
DaysToYear(y) ==
    IF y = 1970 THEN 0
    ELSE IF y > 1970 THEN DaysToYear(y - 1) + DaysInYear(y - 1)
    ELSE DaysToYear(y + 1) - DaysInYear(y)

\* days from the first day of year y to the first day of its month m
RECURSIVE DaysToMonth(_, _)
DaysToMonth(y, m) ==
    IF m = 1 THEN 0 ELSE DaysToMonth(y, m - 1) + DaysInMonth(y, m - 1)

\* the year and the day in it (0-based) of a day counted from 1970-01-01
RECURSIVE YearOfDay(_, _)
YearOfDay(days, y) ==
    IF days < DaysInYear(y) THEN <<y, days>>
    ELSE YearOfDay(days - DaysInYear(y), y + 1)

\* the month and the day in it (0-based) of a day of year y
RECURSIVE MonthOfDay(_, _, _)
MonthOfDay(yday, y, m) ==
    IF yday < DaysInMonth(y, m) THEN <<m, yday>>
    ELSE MonthOfDay(yday - DaysInMonth(y, m), y, m + 1)

\* gmtime(d) for a float d >= 0: the fraction of a second is dropped
gmtime(d) ==
    LET secs == d \div 10
        days == secs \div 86400
        rem == secs % 86400
        yd == YearOfDay(days, 1970)
        md == MonthOfDay(yd[2], yd[1], 1)
    IN [tm_year |-> yd[1], tm_mon |-> md[1], tm_mday |-> md[2] + 1,
        tm_hour |-> rem \div 3600, tm_min |-> (rem % 3600) \div 60,
        tm_sec |-> rem % 60,
        \* 1970-01-01 is a Thursday, and Monday is 0
        tm_wday |-> (days + 3) % 7]

\* datetime.date accepts the years 1..9999
MAXYEAR == 9999

\* calendar.timegm: seconds from the epoch; the day, hour, minute and second
\* are not range-checked, the year is (ValueError)
timegm(data) ==
    IF data.yy > MAXYEAR THEN [raise |-> "ValueError", result |-> 0]
    ELSE [raise |-> "",
          result |-> (((DaysToYear(data.yy) + DaysToMonth(data.yy, data.mm)
                     + data.dd - 1) * 24 + data.thh) * 60 + data.tmm) * 60
                  + data.tss]

(***************************************************************************)
(* StaticController.make_date.                                             *)
(***************************************************************************)
DayNames == << <<"M", "o", "n">>, <<"T", "u", "e">>, <<"W", "e", "d">>,
               <<"T", "h", "u">>, <<"F", "r", "i">>, <<"S", "a", "t">>,
               <<"S", "u", "n">> >>

MonthNames == << <<"J", "a", "n">>, <<"F", "e", "b">>, <<"M", "a", "r">>,
                 <<"A", "p", "r">>, <<"M", "a", "y">>, <<"J", "u", "n">>,
                 <<"J", "u", "l">>, <<"A", "u", "g">>, <<"S", "e", "p">>,
                 <<"O", "c", "t">>, <<"N", "o", "v">>, <<"D", "e", "c">> >>

GMT == <<"G", "M", "T">>

\* '%s, %02d%s%s%s%s %02d:%02d:%02d GMT': 'Thu, 01 Jan 1970 00:00:00 GMT'
make_date(d) ==
    LET t == gmtime(d)
    IN DayNames[t.tm_wday + 1] \o <<",", " ">> \o Pad2(t.tm_mday) \o <<" ">>
       \o MonthNames[t.tm_mon] \o <<" ">> \o StrInt(t.tm_year) \o <<" ">>
       \o Pad2(t.tm_hour) \o <<":">> \o Pad2(t.tm_min) \o <<":">>
       \o Pad2(t.tm_sec) \o <<" ">> \o GMT

(***************************************************************************)
(* StaticController.generate_etag: '"%s-%s"' of a float and an int.        *)
(***************************************************************************)
\* an ETag made of the modification time alone
generate_etag_NoLength(last_modified, content_length) ==
    <<"\"">> \o StrFloat(last_modified) \o <<"\"">>

generate_etag(last_modified, content_length) ==
    <<"\"">> \o StrFloat(last_modified) \o <<"-">> \o StrInt(content_length)
    \o <<"\"">>

(***************************************************************************)
(* email.utils.parsedate_tz and mktime_tz, for the dates of the form       *)
(* '[Day,] dd Mon yyyy hh:mm[:ss] [zone]'.                                 *)
(***************************************************************************)
NoDate == [yy |-> 0, mm |-> 0, dd |-> 0, thh |-> 0, tmm |-> 0, tss |-> 0,
           none |-> TRUE, tz |-> 0]

\* the date fields of a string, or NoDate (Python's None) when the words are
\* too few, the month is no month name or a number is no number
parsedate_tz(value) ==
    LET words == SplitBlank(value)
        data0 == IF words # <<>> /\ EndsWith(words[1], <<",">>)
                 THEN Tail(words) ELSE words
        \* a date without a zone gets an empty one
        data == IF Len(data0) = 4 THEN Append(data0, <<>>) ELSE data0
    IN IF words = <<>> \/ Len(data) < 5 THEN NoDate
       ELSE LET dd == IntOf(data[1])
                mon == data[2]
                yy == IntOf(data[3])
                tm == Split(data[4], ":")
                thh == IntOf(tm[1])
                tmm == IF Len(tm) >= 2 THEN IntOf(tm[2]) ELSE -1
                tss == IF Len(tm) = 2 THEN 0
                       ELSE IF Len(tm) = 3 THEN IntOf(tm[3]) ELSE -1
            IN IF (\A i \in 1..12 : MonthNames[i] # mon)
                  \/ Len(tm) \notin {2, 3}
                  \/ dd < 0 \/ yy < 0 \/ thh < 0 \/ tmm < 0 \/ tss < 0
               THEN NoDate
               ELSE [yy |-> IF yy >= 100 THEN yy
                            ELSE IF yy <= 68 THEN yy + 2000 ELSE yy + 1900,
                     mm |-> CHOOSE i \in 1..12 : MonthNames[i] = mon,
                     dd |-> dd, thh |-> thh, tmm |-> tmm, tss |-> tss,
                     none |-> FALSE,
                     \* GMT, and any zone name that is not known, is offset 0
                     tz |-> 0]

\* mktime_tz(None) is a TypeError: None has no tenth field
mktime_tz(data) ==
    IF data.none THEN [raise |-> "TypeError", result |-> 0]
    ELSE LET t == timegm(data)
         IN [raise |-> t.raise, result |-> t.result - data.tz]

(***************************************************************************)
(* StaticController.parse_date: TypeError and OverflowError become         *)
(* HTTPBadRequest, any other exception goes on to the caller.              *)
(***************************************************************************)
\* a parse_date that takes a string that is no date for the epoch
parse_date_Lenient(value) ==
    LET r == mktime_tz(parsedate_tz(value))
    IN IF r.raise \in {"TypeError", "OverflowError"}
       THEN [raise |-> "", result |-> 0]
       ELSE r

parse_date(value) ==
    LET r == mktime_tz(parsedate_tz(value))
    IN IF r.raise \in {"TypeError", "OverflowError"}
       THEN [raise |-> "HTTPBadRequest", result |-> 0]
       ELSE r

(***************************************************************************)
(* StaticController.has_been_modified.  last_modified is a float, the      *)
(* parsed header a whole number of seconds.                                *)
(***************************************************************************)
SafeMethods == {"GET", "HEAD"}

has_been_modified(environ, etag, last_modified) ==
    IF environ.REQUEST_METHOD \notin SafeMethods
    THEN [raise |-> "", result |-> FALSE]
    ELSE LET modified_since == environ.HTTP_IF_MODIFIED_SINCE
             parsed == IF Truthy(modified_since) THEN parse_date(modified_since)
                       ELSE [raise |-> "", result |-> 0]
             by_date == Truthy(modified_since)
                        /\ last_modified # 0
                        /\ last_modified <= parsed.result * 10
             if_none_match == environ.HTTP_IF_NONE_MATCH
             by_etag == Truthy(if_none_match) /\ etag = if_none_match
             unmodified == by_date \/ by_etag
         IN IF parsed.raise # "" THEN [raise |-> parsed.raise, result |-> FALSE]
            ELSE [raise |-> "", result |-> ~unmodified]

(***************************************************************************)
(* Text that the program only passes on (messages, header names and the    *)
(* fixed parts of header values) is kept in one piece.                     *)
(***************************************************************************)
\* StaticController.__init__: cache_max_age=3600
cache_max_age == 3600

\* self.static_path: <application path>/<static_path>, normalized
static_path == _adapt_path(join(<<"/", "r">>, << <<"s">> >>))

\* the files of the model's disk: the served file, a directory under the
\* root, and a file outside the root
ServedFile == <<"/", "r", "/", "s", "/", "a", ".", "c", "s", "s">>
SubDir == <<"/", "r", "/", "s", "/", "d">>
OutsideFile == <<"/", "e">>
DiskPaths == {static_path, ServedFile, SubDir, OutsideFile}

\* the floats a modification time can be: each timestamp and the half second
\* after it
Mtimes == {k * TimeStride * 10 + f : k \in 0..MaxTimes, f \in {0, 5}}
Sizes == 0..MaxSize
Clock == {k * TimeStride * 10 : k \in 0..MaxTimes}

Absent == [kind |-> "none", mtime |-> 0, size |-> 0, readable |-> FALSE]
Directory == [kind |-> "dir", mtime |-> 5, size |-> 0, readable |-> TRUE]
RegularFile(m, n, r) == [kind |-> "file", mtime |-> m, size |-> n, readable |-> r]

(***************************************************************************)
(* The state.                                                              *)
(***************************************************************************)
VARIABLES
    disk,            \* the file system: path -> entry
    pc,              \* where the request is in _default
    args,            \* the path segments of the request
    environ,         \* request.environ
    filepath,        \* the locals of _default
    last_modified,
    content_length,
    outcome,         \* what _default returned or raised
    handles,         \* the open file handles, each with its owner
    fslog,           \* the file system calls of the request, in order
    client           \* the validators a caching client keeps

vars == <<disk, pc, args, environ, filepath, last_modified, content_length,
          outcome, handles, fslog, client>>

request == <<args, environ>>
locals == <<filepath, last_modified, content_length>>

NoOutcome == [kind |-> "", headers |-> <<>>, detail |-> <<>>, stream |-> None]
NoClient == [last_modified |-> None, etag |-> None, mtime |-> -1, size |-> -1,
             args |-> <<>>, path_info |-> None]

(***************************************************************************)
(* os.path.getmtime / getsize / isfile and open, on the model's disk.      *)
(***************************************************************************)
Entry(path) == IF path \in DOMAIN disk THEN disk[path] ELSE Absent

\* os.stat succeeds on files and directories alike
StatOk(path) == Entry(path).kind # "none"

isfile(path) == Entry(path).kind = "file"

\* the error of open(path, 'rb'), '' when it succeeds
OpenError(path) ==
    LET e == Entry(path)
    IN IF e.kind = "none" THEN <<"[Errno 2] No such file or directory">>
       ELSE IF e.kind = "dir" THEN <<"[Errno 21] Is a directory">>
       ELSE IF ~e.readable THEN <<"[Errno 13] Permission denied">>
       ELSE <<>>

\* the error of os.stat(path), '' when it succeeds
StatError(path) ==
    IF StatOk(path) THEN <<>> ELSE <<"[Errno 2] No such file or directory">>

\* one file system call of the request, with the error it raised ('' for none)
Call(op, path, err) == [path |-> path, op |-> op, err |-> err, ok |-> err = <<>>]

(***************************************************************************)
(* tg.support.statics.INVALID_PATH_PARTS: set(['..', '.']).intersection,   *)
(* true of a sequence with a segment that is exactly '..' or '.'.          *)
(***************************************************************************)
\* a check that looks at the first segment only
INVALID_PATH_PARTS_FirstOnly(parts) ==
    parts # <<>> /\ parts[1] \in {<<".", ".">>, <<".">>}

INVALID_PATH_PARTS(parts) ==
    \E i \in 1..Len(parts) : parts[i] \in {<<".", ".">>, <<".">>}

(***************************************************************************)
(* mimetypes.guess_type(filepath, strict=False)[0], by the file's suffix.  *)
(***************************************************************************)
guess_type(path) ==
    IF EndsWith(path, <<".", "c", "s", "s">>) THEN <<"text/css">> ELSE None

(***************************************************************************)
(* _default, lines 129-134: the path of the file to serve.                 *)
(***************************************************************************)
Filepath(segs, path_info) ==
    LET joined == _adapt_path(join(static_path, segs))
        extension == Split(path_info, ".")
    IN IF Len(extension) > 1
       THEN joined \o <<".">> \o extension[Len(extension)]
       ELSE joined

(***************************************************************************)
(* The headers of _default.                                                *)
(***************************************************************************)
CacheControl == <<"max-age=">> \o StrInt(cache_max_age) \o <<", public">>

MinimalHeaders(etag) == << <<"Etag", etag>>, <<"Cache-Control", CacheControl>> >>

FullHeaders(etag, now, content_type) ==
    MinimalHeaders(etag)
    \o << <<"Expires", make_date(now + cache_max_age * 10)>>,
          <<"Content-Type", content_type>>,
          <<"Content-Length", StrInt(content_length)>>,
          <<"Last-Modified", make_date(last_modified)>>,
          <<"Etag", etag>>,
          <<"Cache-Control", CacheControl>> >>

HeaderValue(headers, name) ==
    IF \E i \in 1..Len(headers) : headers[i][1] = name
    THEN headers[CHOOSE i \in 1..Len(headers) :
                     headers[i][1] = name
                     /\ \A j \in 1..(i - 1) : headers[j][1] # name][2]
    ELSE None

Return(kind, headers, detail, stream) ==
    [kind |-> kind, headers |-> headers, detail |-> detail, stream |-> stream]

(***************************************************************************)
(* _default, step by step.                                                 *)
(***************************************************************************)
\* a target with a slash put between the path and the file name
RedirectTargetSlash(path_info) ==
    path_info \o <<"/", "i", "n", "d", "e", "x", ".", "h", "t", "m", "l">>

\* line 124: request.environ["PATH_INFO"] + "index.html"
RedirectTarget(path_info) ==
    path_info \o <<"i", "n", "d", "e", "x", ".", "h", "t", "m", "l">>

\* a failed open reported like a failed stat
OpenFailedAsNotFound(e) == Return("NotFound", <<>>, <<>>, None)

\* line 152: HTTPForbidden with the error of the open in its text
OpenFailed(e) ==
    Return("Forbidden", <<>>,
           <<"You are not permitted to view this file (">> \o e \o <<")">>, None)

\* lines 122-134: the redirect of the empty path, the check of the segments
\* and the path of the file; no file system call
Enter(segs, env) ==
    /\ pc = "idle"
    /\ args' = segs
    /\ environ' = env
    /\ fslog' = <<>>
    /\ IF segs = <<>>
       THEN /\ outcome' = Return("Redirect", <<>>, RedirectTarget(env.PATH_INFO),
                                 None)
            /\ pc' = "done"
            /\ UNCHANGED filepath
       ELSE IF INVALID_PATH_PARTS(segs)
       THEN /\ outcome' = Return("NotFound", <<>>,
                                 <<"Out of bounds: ">> \o env.PATH_INFO, None)
            /\ pc' = "done"
            /\ UNCHANGED filepath
       ELSE /\ filepath' = Filepath(segs, env.PATH_INFO)
            /\ pc' = "getmtime"
            /\ UNCHANGED outcome
    /\ UNCHANGED <<disk, last_modified, content_length, handles, client>>

\* line 137, and line 140 when it fails
GetMtime ==
    /\ pc = "getmtime"
    /\ fslog' = Append(fslog, Call("getmtime", filepath, StatError(filepath)))
    /\ IF StatOk(filepath)
       THEN /\ last_modified' = Entry(filepath).mtime
            /\ pc' = "getsize"
            /\ UNCHANGED outcome
       ELSE /\ outcome' = Return("NotFound", <<>>, <<>>, None)
            /\ pc' = "done"
            /\ UNCHANGED last_modified
    /\ UNCHANGED <<disk, request, filepath, content_length, handles, client>>

\* line 138, and line 140 when it fails
GetSize ==
    /\ pc = "getsize"
    /\ fslog' = Append(fslog, Call("getsize", filepath, StatError(filepath)))
    /\ IF StatOk(filepath)
       THEN /\ content_length' = Entry(filepath).size
            /\ pc' = "isfile"
            /\ UNCHANGED outcome
       ELSE /\ outcome' = Return("NotFound", <<>>, <<>>, None)
            /\ pc' = "done"
            /\ UNCHANGED content_length
    /\ UNCHANGED <<disk, request, filepath, last_modified, handles, client>>

\* line 142, and line 168 when the path is no regular file
IsFile ==
    /\ pc = "isfile"
    /\ fslog' = Append(fslog, [path |-> filepath, op |-> "isfile",
                                err |-> <<>>, ok |-> isfile(filepath)])
    /\ IF isfile(filepath)
       THEN /\ pc' = "check"
            /\ UNCHANGED outcome
       ELSE /\ outcome' = Return("NotFound", <<>>, <<>>, None)
            /\ pc' = "done"
    /\ UNCHANGED <<disk, request, locals, handles, client>>

\* a cache check that runs with the file already open and does not close it
CacheCheckAfterOpen ==
    /\ pc = "check"
    /\ handles' = handles \cup {[path |-> filepath, owner |-> "_default"]}
    /\ LET etag == generate_etag(last_modified, content_length)
           modified == has_been_modified(environ, etag, last_modified)
       IN IF modified.raise # ""
          THEN /\ outcome' = Return("BadRequest", <<>>, <<modified.raise>>, None)
               /\ pc' = "done"
          ELSE IF ~modified.result
          THEN /\ outcome' = Return("NotModified", MinimalHeaders(etag), <<>>, None)
               /\ pc' = "done"
          ELSE /\ pc' = "open"
               /\ UNCHANGED outcome
    /\ UNCHANGED <<disk, request, locals, fslog, client>>

\* lines 143-147: the ETag, the minimal headers and the cache check; an
\* exception of has_been_modified ends the request
CacheCheck ==
    /\ pc = "check"
    /\ LET etag == generate_etag(last_modified, content_length)
           headers == MinimalHeaders(etag)
           modified == has_been_modified(environ, etag, last_modified)
       IN IF modified.raise = "HTTPBadRequest"
          THEN /\ outcome' = Return("BadRequest", <<>>,
                                    <<"Received an ill-formed timestamp.\r\n">>, None)
               /\ pc' = "done"
          ELSE IF modified.raise # ""
          THEN /\ outcome' = Return("Error", <<>>, <<modified.raise>>, None)
               /\ pc' = "done"
          ELSE IF ~modified.result
          THEN /\ outcome' = Return("NotModified", headers, <<>>, None)
               /\ pc' = "done"
          ELSE /\ pc' = "open"
               /\ UNCHANGED outcome
    /\ UNCHANGED <<disk, request, locals, handles, fslog, client>>

\* lines 149-167: the open, and on success the content type, the full
\* headers (with the clock read for Expires) and the stream that takes the
\* file object
OpenFile ==
    /\ pc = "open"
    /\ LET e == OpenError(filepath)
           etag == generate_etag(last_modified, content_length)
           guessed == guess_type(filepath)
           content_type == IF guessed = None THEN <<"application/octet-stream">>
                           ELSE guessed
       IN /\ fslog' = Append(fslog, Call("open", filepath, e))
          /\ IF e # <<>>
             THEN /\ outcome' = OpenFailed(e)
                  /\ UNCHANGED handles
             ELSE \E now \in Clock :
                  /\ handles' = handles \cup {[path |-> filepath, owner |-> "stream"]}
                  /\ outcome' = Return("Success",
                                       FullHeaders(etag, now, content_type),
                                       <<>>, filepath)
    /\ pc' = "done"
    /\ UNCHANGED <<disk, request, locals, client>>

\* The host has sent the response: a stream is read to its end and closes
\* its file, and the request is over.
EndRequest ==
    /\ pc' = "idle"
    /\ handles' = {}
    /\ args' = <<>>
    /\ environ' = None
    /\ filepath' = None
    /\ last_modified' = -1
    /\ content_length' = -1
    /\ outcome' = NoOutcome
    /\ fslog' = <<>>
    /\ UNCHANGED disk

Finish ==
    /\ pc = "done"
    /\ EndRequest
    /\ UNCHANGED client

\* A caching client keeps the validators of a Success response (and, for
\* the claims, the file times and sizes the response was built from).
Remember ==
    /\ pc = "done"
    /\ outcome.kind = "Success"
    /\ client' = [last_modified |-> HeaderValue(outcome.headers, "Last-Modified"),
                  etag |-> HeaderValue(outcome.headers, "Etag"),
                  mtime |-> last_modified, size |-> content_length,
                  args |-> args, path_info |-> environ.PATH_INFO]
    /\ EndRequest

(***************************************************************************)
(* The concurrent actor: another process that changes the served file.     *)
(***************************************************************************)
SetServed(e) ==
    /\ disk' = [disk EXCEPT ![ServedFile] = e]
    /\ UNCHANGED <<pc, request, locals, outcome, handles, fslog, client>>

Touch ==
    /\ disk[ServedFile].kind = "file"
    /\ \E m \in Mtimes \ {disk[ServedFile].mtime} :
           SetServed([disk[ServedFile] EXCEPT !.mtime = m])

Write ==
    /\ disk[ServedFile].kind = "file"
    /\ \E n \in Sizes \ {disk[ServedFile].size} :
           SetServed([disk[ServedFile] EXCEPT !.size = n])

Chmod ==
    /\ disk[ServedFile].kind = "file"
    /\ SetServed([disk[ServedFile] EXCEPT !.readable = ~disk[ServedFile].readable])

Remove ==
    /\ disk[ServedFile].kind # "none"
    /\ SetServed(Absent)

Create ==
    /\ disk[ServedFile].kind = "none"
    /\ \E m \in Mtimes, n \in Sizes : SetServed(RegularFile(m, n, TRUE))

MkDir ==
    /\ disk[ServedFile].kind = "none"
    /\ SetServed(Directory)

(***************************************************************************)
(* The requests.  The host gives _default the path segments after the      *)
(* mount point, without the extension, and the raw path in PATH_INFO.      *)
(***************************************************************************)
MountPoint == <<"/", "m", "/">>

Css == <<"c", "s", "s">>

PathInfo(segs, ext) ==
    MountPoint \o JoinWith(segs, <<"/">>)
    \o (IF ext = None THEN <<>> ELSE <<".">> \o ext)

Environ(method, path_info, modified_since, none_match) ==
    [REQUEST_METHOD |-> method, HTTP_IF_MODIFIED_SINCE |-> modified_since,
     HTTP_IF_NONE_MATCH |-> none_match, PATH_INFO |-> path_info]

Methods == {"GET", "HEAD", "POST"}

NotADate == <<"n", "o", "t", "-", "a", "-", "d", "a", "t", "e">>

\* a date of a year that datetime.date does not accept
FarDate == <<"M", "o", "n", ",", " ", "0", "1", " ", "J", "a", "n", " ",
             "9", "9", "9", "9", "9", " ", "0", "0", ":", "0", "0", ":",
             "0", "0", " ", "G", "M", "T">>

\* the whole seconds of the dates a client sends: the epoch, and each later
\* timestamp with the second before and the second after it
Seconds == {0} \cup {k * TimeStride + j : k \in 1..MaxTimes, j \in {-1, 0, 1}}

ModifiedSincePool == {None, NotADate, FarDate} \cup {make_date(t * 10) : t \in Seconds}

\* fewer dates, for the requests that run next to the concurrent actor
FewDates == {None, NotADate, FarDate, make_date(MaxTimes * TimeStride * 10)}

\* no header, a value that is no ETag of the program, and the ETag of the
\* served file as it is on disk when the request is made
NoneMatchPool ==
    {None, <<"*">>,
     generate_etag(disk[ServedFile].mtime, disk[ServedFile].size)}

\* the requests of the general specification: the empty path, the served
\* file, a directory, and a path with a '..' segment
Targets == { <<<<>>, None>>, << <<<<"a">>>>, Css>>, << <<<<"d">>>>, None>>,
             << <<<<".", ".">>, <<"a">>>>, Css>> }

Request ==
    \E t \in Targets, method \in Methods, ims \in FewDates,
       inm \in NoneMatchPool \ {<<"*">>} :
        Enter(t[1], Environ(method, PathInfo(t[1], t[2]), ims, inm))

\* the requests for the served file with every conditional header
RequestCond ==
    \E method \in Methods, ims \in ModifiedSincePool, inm \in NoneMatchPool :
        Enter(<<<<"a">>>>, Environ(method, PathInfo(<<<<"a">>>>, Css), ims, inm))

\* the segments of the path specification: names, '.', '..', the empty
\* segment, an absolute segment and a segment with separators in it
Segments == {<<"a">>, <<"d">>, <<".">>, <<".", ".">>, <<>>, <<"/", "e">>,
             <<".", ".", "/", ".", ".", "/", "e">>}

RECURSIVE SeqsUpTo(_, _)
SeqsUpTo(S, n) ==
    IF n = 0 THEN {<<>>}
    ELSE LET shorter == SeqsUpTo(S, n - 1)
         IN shorter \cup {Append(q, x) : q \in shorter, x \in S}

RequestPath ==
    \E segs \in SeqsUpTo(Segments, MaxSegs), ext \in {None, Css} :
        Enter(segs, Environ("GET", PathInfo(segs, ext), None, None))

\* the requests of a caching client for the served file: a first request,
\* and a revalidation with the ETag or with the Last-Modified it keeps
RequestTrip ==
    \E method \in SafeMethods, how \in {"first", "etag", "date"} :
        /\ how # "first" => client # NoClient
        /\ Enter(<<<<"a">>>>,
                 Environ(method, PathInfo(<<<<"a">>>>, Css),
                         IF how = "date" THEN client.last_modified ELSE None,
                         IF how = "etag" THEN client.etag ELSE None))

(***************************************************************************)
(* The specifications.                                                     *)
(***************************************************************************)
Init ==
    /\ \E m \in Mtimes, n \in Sizes :
           disk = [p \in DiskPaths |->
                      IF p = ServedFile THEN RegularFile(m, n, TRUE)
                      ELSE IF p = OutsideFile THEN RegularFile(5, 1, TRUE)
                      ELSE Directory]
    /\ pc = "idle"
    /\ args = <<>>
    /\ environ = None
    /\ filepath = None
    /\ last_modified = -1
    /\ content_length = -1
    /\ outcome = NoOutcome
    /\ handles = {}
    /\ fslog = <<>>
    /\ client = NoClient

Handler == GetMtime \/ GetSize \/ IsFile \/ CacheCheck \/ OpenFile

Actor == Touch \/ Write \/ Chmod \/ Remove \/ Create \/ MkDir

\* any request, next to the concurrent actor
Next == Request \/ Handler \/ Finish \/ Actor

Spec == Init /\ [][Next]_vars

\* every conditional header, on a disk that does not change
NextCond == RequestCond \/ Handler \/ Finish

SpecCond == Init /\ [][NextCond]_vars

\* any path segments, on a disk that does not change
NextPath == RequestPath \/ Handler \/ Finish

SpecPath == Init /\ [][NextPath]_vars

\* a caching client, next to the concurrent actor
NextTrip == RequestTrip \/ Handler \/ Finish \/ Remember \/ Actor

SpecTrip == Init /\ [][NextTrip]_vars

(***************************************************************************)
(* What the claims speak of.                                               *)
(***************************************************************************)
InRequest == pc # "idle"

Done == pc = "done"

Ended(kind) == Done /\ outcome.kind = kind

\* the calls of the request to one file system operation
Calls(op) == {i \in 1..Len(fslog) : fslog[i].op = op}

\* the stat calls and the regular-file check of the request succeeded
FoundRegularFile ==
    /\ \E i \in Calls("getmtime") : fslog[i].ok
    /\ \E i \in Calls("getsize") : fslog[i].ok
    /\ \E i \in Calls("isfile") : fslog[i].ok

UnderRoot(path) == StartsWith(path, static_path)

HasDotDot(segs) == \E i \in 1..Len(segs) : segs[i] = <<".", ".">>

(***************************************************************************)
(* C1: a request whose segments, joined onto the static root and           *)
(* normalized, with the recovered extension appended, name a path that is  *)
(* not prefixed by the static root ends in NotFound, and no path outside   *)
(* the root is given to getmtime, getsize, isfile or open.                 *)
(* The code has no prefix check: this is violated.                         *)
(***************************************************************************)
C1_EscapeEndsNotFound ==
    (InRequest /\ args # <<>> /\ ~UnderRoot(Filepath(args, environ.PATH_INFO)))
    => /\ Done => outcome.kind = "NotFound"
       /\ \A i \in 1..Len(fslog) : UnderRoot(fslog[i].path)

(***************************************************************************)
(* C2: a request with a '..' segment in any position ends in NotFound      *)
(* without any call to getmtime, getsize, isfile or open, at any point of  *)
(* the request.                                                            *)
(***************************************************************************)
C2_DotDotNotFoundNoDisk ==
    (InRequest /\ HasDotDot(args))
    => /\ Ended("NotFound")
       /\ fslog = <<>>
       /\ handles = {}

\* a request whose second segment, not its first, is '..' has ended
C2_Witness ==
    /\ Done
    /\ Len(args) = 2
    /\ args[1] = <<"a">>
    /\ args[2] = <<".", ".">>
    /\ outcome.kind = "NotFound"

(***************************************************************************)
(* C8: a request with no path segment ends in a redirect to the raw        *)
(* request path followed by 'index.html' ('/m/' gives '/m/index.html'),    *)
(* with no path check and no file system call.                             *)
(***************************************************************************)
C8_EmptyPathRedirects ==
    (InRequest /\ args = <<>>)
    => /\ Ended("Redirect")
       /\ Len(outcome.detail) = Len(environ.PATH_INFO) + 10
       /\ SubSeq(outcome.detail, 1, Len(environ.PATH_INFO)) = environ.PATH_INFO
       /\ SubSeq(outcome.detail, Len(environ.PATH_INFO) + 1, Len(outcome.detail))
              = <<"i", "n", "d", "e", "x", ".", "h", "t", "m", "l">>
       /\ environ.PATH_INFO = <<"/", "m", "/">>
              => outcome.detail = <<"/", "m", "/", "i", "n", "d", "e", "x", ".",
                                    "h", "t", "m", "l">>
       /\ fslog = <<>>
       /\ filepath = None

\* the request for '/m/' has been redirected
C8_Witness ==
    /\ Ended("Redirect")
    /\ args = <<>>
    /\ environ.PATH_INFO = <<"/", "m", "/">>

(***************************************************************************)
(* The conditional headers of the request.                                 *)
(***************************************************************************)
Method == environ.REQUEST_METHOD

IfModifiedSince == environ.HTTP_IF_MODIFIED_SINCE

IfNoneMatch == environ.HTTP_IF_NONE_MATCH

\* the header is present and stands for a timestamp
IsDate(value) == Truthy(value) /\ mktime_tz(parsedate_tz(value)).raise = ""

\* the header is present and cannot be parsed as a date
IsNoDate(value) == Truthy(value) /\ parsedate_tz(value).none

\* the ETag of the file as the request read it
ReadEtag == generate_etag(last_modified, content_length)

(***************************************************************************)
(* C3: for a method other than GET and HEAD has_been_modified returns      *)
(* true, whatever the conditional headers, and the request for an          *)
(* existing regular file does not end in NotModified.                      *)
(* The code returns False for such a method: this is violated.             *)
(***************************************************************************)
C3_OtherMethodsAreModified ==
    (InRequest /\ Method \notin {"GET", "HEAD"} /\ FoundRegularFile)
    => /\ has_been_modified(environ, ReadEtag, last_modified).result
       /\ ~Ended("NotModified")

(***************************************************************************)
(* C4: for a GET or HEAD request for a readable regular file, whatever     *)
(* its modification time (0 included): an If-Modified-Since at or after    *)
(* the modification time ends in NotModified whatever If-None-Match is,    *)
(* and one strictly before it, with no matching If-None-Match, ends in     *)
(* Success.                                                                *)
(* The code skips the comparison for the modification time 0: violated.    *)
(***************************************************************************)
C4_ModifiedSinceDecides ==
    (Done /\ Method \in {"GET", "HEAD"} /\ FoundRegularFile
          /\ IsDate(IfModifiedSince))
    => LET since == mktime_tz(parsedate_tz(IfModifiedSince)).result * 10
       IN /\ last_modified <= since => outcome.kind = "NotModified"
          /\ (last_modified > since /\ IfNoneMatch # ReadEtag)
                 => outcome.kind = "Success"

C7_OpenFailureIsForbidden ==
    Done =>
      /\ \A i \in Calls("open") :
             ~fslog[i].ok
             => /\ FoundRegularFile
                /\ outcome.kind = "Forbidden"
                /\ fslog[i].err # <<>>
                /\ \E k \in 1..Len(outcome.detail) :
                       <<outcome.detail[k]>> = fslog[i].err
                /\ handles = {}
                /\ outcome.stream = None
      /\ \A i \in Calls("getmtime") \cup Calls("getsize") :
             ~fslog[i].ok
             => /\ outcome.kind = "NotFound"
                /\ Calls("open") = {}
                /\ handles = {}

\* the file was there for the stat calls and the check, and gone at the open
C7_Witness ==
    /\ Ended("Forbidden")
    /\ FoundRegularFile
    /\ \E i \in Calls("open") :
           fslog[i].err = <<"[Errno 2] No such file or directory">>

(***************************************************************************)
(* C9: in a request the file is opened at most once, and only after the    *)
(* cache check reported 'modified'; a request that ends in Redirect,       *)
(* NotFound, NotModified, BadRequest or Forbidden (or in an exception)     *)
(* ends with no open handle, and one that ends in Success with exactly one *)
(* handle, which the returned stream owns.                                 *)
(***************************************************************************)
C9_OneHandleOnSuccessOnly ==
    /\ Cardinality(Calls("open")) <= 1
    /\ Calls("open") # {}
           => /\ FoundRegularFile
              /\ has_been_modified(environ, ReadEtag, last_modified)
                     = [raise |-> "", result |-> TRUE]
    /\ handles # {} => \E i \in Calls("open") : fslog[i].ok
    /\ (Done /\ outcome.kind # "Success")
           => /\ outcome.kind \in {"Redirect", "NotFound", "NotModified",
                                   "BadRequest", "Forbidden", "Error"}
              /\ handles = {}
              /\ outcome.stream = None
    /\ Ended("Success")
           => /\ handles = {[path |-> filepath, owner |-> "stream"]}
              /\ outcome.stream = filepath
              /\ \E i \in Calls("open") : fslog[i].ok

\* the served file has been sent: one handle, held by the stream
C9_Witness ==
    /\ Ended("Success")
    /\ handles = {[path |-> ServedFile, owner |-> "stream"]}
    /\ Cardinality(Calls("open")) = 1

(***************************************************************************)
(* The requests of a client that revalidates what it keeps.                *)
(***************************************************************************)
\* the request is for the file of the kept response, found regular again
Revalidation ==
    /\ Done
    /\ client # NoClient
    /\ args = client.args
    /\ Method \in {"GET", "HEAD"}
    /\ FoundRegularFile

\* the file has the modification time and the size of the kept response
SameAsKept == last_modified = client.mtime /\ content_length = client.size

(***************************************************************************)
(* C5: after a Success with ETag e, a GET or HEAD for the same path with   *)
(* If-None-Match e and no If-Modified-Since ends in NotModified when the   *)
(* modification time and the size of the file are those of the first       *)
(* response, and, the file being read again on every request, in Success   *)
(* when either has changed (and the file can be opened).                   *)
(***************************************************************************)
C5_EtagRoundTrip ==
    (Revalidation /\ IfNoneMatch = client.etag /\ IfModifiedSince = None)
    => IF SameAsKept
       THEN outcome.kind = "NotModified"
       ELSE /\ Calls("open") # {}
            /\ (\A i \in Calls("open") : fslog[i].ok) => outcome.kind = "Success"

\* a revalidation with the kept ETag of a file that has not changed
C5_Witness ==
    /\ Revalidation
    /\ IfNoneMatch = client.etag
    /\ IfModifiedSince = None
    /\ SameAsKept
    /\ outcome.kind = "NotModified"

(***************************************************************************)
(* C10: a GET that carries as If-Modified-Since the Last-Modified value of *)
(* an earlier Success for the file, and no If-None-Match, ends in          *)
(* NotModified when the modification time and the size of the file have    *)
(* not changed, whatever the modification time (fractions of a second      *)
(* included).  Stated for the files modified after the epoch, which leaves *)
(* the modification time 0 to C4.                                          *)
(* make_date drops the fraction and the code compares the float with the   *)
(* parsed whole second: this is violated.                                  *)
(***************************************************************************)
C10_LastModifiedRoundTrip ==
    (Revalidation /\ Method = "GET" /\ IfModifiedSince = client.last_modified
                  /\ IfNoneMatch = None /\ SameAsKept /\ last_modified > 0)
    => outcome.kind = "NotModified"

====
